---------------------------- MODULE Spec2Model ----------------------------
(***************************************************************************)
(* Model of src/src/MPC.cpp: the layout of the decision vector, the        *)
(* problem MPC::Solve builds and hands to the external NLP solver, the     *)
(* extraction of the result, and the evaluator FG_eval::operator().        *)
(*                                                                         *)
(* Numbers.  The code computes in double.  The model computes exactly, on  *)
(* integers in milli-units: lengths in mm, speeds in mm/s, accelerations   *)
(* in mm/s^2, angles in mrad.  cos, sin and atan are tables of the values  *)
(* rounded to 1/1000.  solver_dt = 0.1 is the divisor                      *)
(* solver_dt_inv = 10 and Lf = 2.67 the divisor Lf_centi = 267.            *)
(*                                                                         *)
(* The horizon length solver_N is a build-time constant of the program     *)
(* (12 in the source).  It is a variable that never changes after Init, so *)
(* that the layout and the loops are checked for several horizon lengths.  *)
(***************************************************************************)
EXTENDS Integers, Sequences, FiniteSets, TLC

VARIABLES
    solver_N,   \* horizon length (src line 10), fixed by Init
    frame,      \* frame[p]: the locals of invocation p of MPC::Solve
    lay_i,      \* cursor of the layout scan over the decision vector
    epc,        \* FG_eval::operator(): position in the evaluator
    et,         \* FG_eval::operator(): loop counter t
    cost,       \* terms added to fg[0] so far
    reads,      \* accesses vars[segment_start + offset] made so far
    fgw,        \* assignments fg[k] = ... made so far
    st0,        \* the state variables of step 0 as read from vars
    cur,        \* the state variables of the step read last
    dead        \* all dynamics residuals so far are 0 and all actuators 0

vars == <<solver_N, frame, lay_i, epc, et, cost, reads, fgw,
          st0, cur, dead>>

---------------------------------------------------------------------------
(* Bounds of the model *)

MaxN == 3
MaxLayoutN == 12

---------------------------------------------------------------------------
(* File-scope constants, src lines 9-49 *)

solver_dt_inv == 10
Lf_centi == 267
max_delta == 436
max_acc == 1000
std_cte == 4000
std_epsi == 628
std_ddelta_dt == max_delta \div 4
std_dacc_dt == max_acc \div 2
\* 70 / mps_to_mph in mm/s; mps_to_mph comes from MPC.h, taken as 2.23694
speed_limit == 31293
\* 1.0e19, the solver's "no bound" value: larger than every model value
NO_LIMIT == 2000000000
\* an element of a Dvector(n) that no statement has assigned yet
UNSET == -NO_LIMIT - 1

x_start == 0
y_start == x_start + solver_N
psi_start == y_start + solver_N
v_start == psi_start + solver_N
cte_start == v_start + solver_N
epsi_start == cte_start + solver_N
delta_start == epsi_start + solver_N
\* a_start with the delta segment taken to hold solver_N entries
a_start_full_delta == delta_start + solver_N
a_start == delta_start + solver_N - 1
n_vars == a_start + solver_N - 1
n_constraints == delta_start

StateSegs == <<"x", "y", "psi", "v", "cte", "epsi">>
ActSegs == <<"delta", "a">>
AllSegs == StateSegs \o ActSegs

\* the start constant a piece of code names for a segment
Start(seg) ==
    CASE seg = "x" -> x_start
      [] seg = "y" -> y_start
      [] seg = "psi" -> psi_start
      [] seg = "v" -> v_start
      [] seg = "cte" -> cte_start
      [] seg = "epsi" -> epsi_start
      [] seg = "delta" -> delta_start
      [] seg = "a" -> a_start

\* the number of entries the code's comments and loops give a segment
SegLen(seg) == IF seg \in {"delta", "a"} THEN solver_N - 1 ELSE solver_N

SegRange(seg) == Start(seg) .. (Start(seg) + SegLen(seg) - 1)

SegsOf(i) == {k \in 1..Len(AllSegs) : i \in SegRange(AllSegs[k])}

Range(s) == {s[k] : k \in DOMAIN s}

---------------------------------------------------------------------------
(* MPC::Solve, src lines 209-306 *)

Procs == {1, 2}
Statuses == {"success", "maxiter_exceeded", "unknown"}

IdleFrame ==
    [pc |-> "idle", init_state |-> <<>>, coeffs |-> <<>>, vars |-> <<>>,
     vars_lowerbound |-> <<>>, vars_upperbound |-> <<>>, bound_writes |-> <<>>,
     constraints_lowerbound |-> <<>>, constraints_upperbound |-> <<>>,
     solver_calls |-> 0, status |-> "none", x |-> <<>>, warned |-> FALSE,
     x_reads |-> {}, next_delta |-> 0, next_a |-> 0,
     solved_x |-> <<>>, solved_y |-> <<>>]

\* for (i = lo; i < hi; i++) f[i] = val
LoopFill(f, lo, hi, val) ==
    [i \in DOMAIN f |-> IF lo <= i /\ i < hi THEN val ELSE f[i]]

\* the loops with the speed loop running to i <= cte_start
BoundLoopsSpeedInclusive ==
    << [lo |-> 0, hi |-> delta_start, lower |-> -NO_LIMIT, upper |-> NO_LIMIT],
       [lo |-> v_start, hi |-> cte_start + 1, lower |-> -speed_limit, upper |-> speed_limit],
       [lo |-> delta_start, hi |-> a_start, lower |-> -max_delta, upper |-> max_delta],
       [lo |-> a_start, hi |-> n_vars, lower |-> -max_acc, upper |-> max_acc] >>

\* the four loops over vars_lowerbound / vars_upperbound, src lines 224-242
BoundLoops ==
    << [lo |-> 0, hi |-> delta_start, lower |-> -NO_LIMIT, upper |-> NO_LIMIT],
       [lo |-> v_start, hi |-> cte_start, lower |-> -speed_limit, upper |-> speed_limit],
       [lo |-> delta_start, hi |-> a_start, lower |-> -max_delta, upper |-> max_delta],
       [lo |-> a_start, hi |-> n_vars, lower |-> -max_acc, upper |-> max_acc] >>

RECURSIVE RunLower(_, _)
RunLower(f, k) ==
    IF k > Len(BoundLoops) THEN f
    ELSE RunLower(LoopFill(f, BoundLoops[k].lo, BoundLoops[k].hi, BoundLoops[k].lower), k + 1)

RECURSIVE RunUpper(_, _)
RunUpper(f, k) ==
    IF k > Len(BoundLoops) THEN f
    ELSE RunUpper(LoopFill(f, BoundLoops[k].lo, BoundLoops[k].hi, BoundLoops[k].upper), k + 1)

\* Dvector v(n): n elements, none assigned
Dvector(n) == [i \in 0..(n - 1) |-> UNSET]

\* how many of the loops assign index i
BoundWrites ==
    [i \in 0..(n_vars - 1) |->
        Cardinality({k \in DOMAIN BoundLoops :
                        BoundLoops[k].lo <= i /\ i < BoundLoops[k].hi})]

\* the indices of src lines 253-258, in the order of init_state[0..5]
PinTargets == <<x_start, y_start, psi_start, v_start, cte_start, epsi_start>>

\* f[PinTargets[k]] = init_state[k - 1] for the six components
Pinned(f, is) ==
    [i \in DOMAIN f |->
        IF \E k \in DOMAIN PinTargets : PinTargets[k] = i
        THEN is[CHOOSE k \in DOMAIN PinTargets : PinTargets[k] = i]
        ELSE f[i]]

\* src lines 215-218 and 253-258: the initial guess
InitialGuess(is) == Pinned(LoopFill(Dvector(n_vars), 0, n_vars, 0), is)

\* the constraint bounds with the assignments of src lines 253-258 left out
ConstraintBoundsAllZero(is) == LoopFill(Dvector(n_constraints), 0, n_constraints, 0)

\* src lines 246-250 and 253-258: the common lower/upper constraint bound
ConstraintBounds(is) ==
    Pinned(LoopFill(Dvector(n_constraints), 0, n_constraints, 0), is)

\* src lines 210-284: everything Solve does up to the call of the solver
BuildProblem(is, cf) ==
    [IdleFrame EXCEPT
        !.pc = "solving",
        !.init_state = is,
        !.coeffs = cf,
        !.vars = InitialGuess(is),
        !.vars_lowerbound = RunLower(Dvector(n_vars), 1),
        !.vars_upperbound = RunUpper(Dvector(n_vars), 1),
        !.bound_writes = BoundWrites,
        !.constraints_lowerbound = ConstraintBounds(is),
        !.constraints_upperbound = ConstraintBounds(is),
        !.solver_calls = 1]

Access(seg, off) == [seg |-> seg, off |-> off, idx |-> Start(seg) + off]

\* the accesses solution.x[...] of src lines 295-303
ExtractReads ==
    {Access("delta", 0), Access("a", 0)}
      \cup {Access("x", i) : i \in 0..(solver_N - 1)}
      \cup {Access("y", i) : i \in 0..(solver_N - 1)}

\* the tail with a zero command in place of the candidate on a non-success status
SolveTailFallback(fr, status, x) ==
    [fr EXCEPT
        !.pc = "returned",
        !.status = status,
        !.x = x,
        !.warned = (status # "success"),
        !.x_reads = ExtractReads,
        !.next_delta = IF status = "success" THEN x[delta_start] ELSE 0,
        !.next_a = IF status = "success" THEN x[a_start] ELSE 0,
        !.solved_x = [i \in 0..(solver_N - 1) |-> x[x_start + i]],
        !.solved_y = [i \in 0..(solver_N - 1) |-> x[y_start + i]]]

\* src lines 286-305: the status check, the warning, the extraction
SolveTail(fr, status, x) ==
    [fr EXCEPT
        !.pc = "returned",
        !.status = status,
        !.x = x,
        !.warned = (status # "success"),
        !.x_reads = ExtractReads,
        !.next_delta = x[delta_start],
        !.next_a = x[a_start],
        !.solved_x = [i \in 0..(solver_N - 1) |-> x[x_start + i]],
        !.solved_y = [i \in 0..(solver_N - 1) |-> x[y_start + i]]]

\* the vectors of the problem kept in static storage that all invocations share
StoreFrameStatic(fr, p, rec) ==
    [q \in DOMAIN fr |->
        IF q = p THEN rec
        ELSE IF fr[q].pc = "idle" \/ rec.pc # "solving" THEN fr[q]
        ELSE [fr[q] EXCEPT
                !.vars = rec.vars,
                !.constraints_lowerbound = rec.constraints_lowerbound,
                !.constraints_upperbound = rec.constraints_upperbound]]

\* the locals of an invocation live in its own stack frame
StoreFrame(fr, p, rec) == [fr EXCEPT ![p] = rec]

(* The external solver.  Once called, it returns a status and a candidate  *)
(* vector of n_vars entries.  A candidate is the initial guess changed at  *)
(* up to two indices.  With status success the candidate satisfies the     *)
(* variable bounds and the six pinning constraints; with any other status  *)
(* it is whatever the solver had.                                          *)
PerturbVals == {-(max_acc + 1), -max_delta, 7, max_delta + 1, max_acc}
SmallPerturbVals == {7, max_delta + 1}

Perturbed(base, i, u, j, w) ==
    [k \in DOMAIN base |-> IF k = j THEN w ELSE IF k = i THEN u ELSE base[k]]

Candidates(fr) ==
    IF fr.pc # "solving" THEN {}
    ELSE {fr.vars} \cup
         {Perturbed(fr.vars, i, u, j, w) :
             i \in DOMAIN fr.vars, u \in PerturbVals,
             j \in {delta_start, a_start}, w \in PerturbVals}

SmallCandidates(fr) ==
    IF fr.pc # "solving" THEN {}
    ELSE {fr.vars} \cup
         {Perturbed(fr.vars, delta_start, u, a_start, w) :
             u \in SmallPerturbVals, w \in SmallPerturbVals}

SolverMayReturn(fr, status, x) ==
    status = "success" =>
        /\ \A i \in DOMAIN x :
              fr.vars_lowerbound[i] <= x[i] /\ x[i] <= fr.vars_upperbound[i]
        /\ \A k \in DOMAIN PinTargets :
              /\ fr.constraints_lowerbound[PinTargets[k]] <= x[PinTargets[k]]
              /\ x[PinTargets[k]] <= fr.constraints_upperbound[PinTargets[k]]

\* the inputs of the callers: <<x, y, psi, v, cte, epsi>> and the coefficients
InitStates ==
    { <<100, 200, 644, 20000, 300, -785>>,
      <<0, 0, 0, speed_limit, 0, 0>>,
      <<0, 1000, 0, speed_limit + 500, 1000, 0>>,
      <<-100, 60, -10, -20000, -60, 10>> }
SmallInitStates ==
    { <<100, 200, 644, 20000, 300, -785>>,
      <<0, 1000, 0, speed_limit + 500, 1000, 0>> }
EvalInitStates == { <<100, 200, 644, 20000, 300, -785>> }
CoeffSet == { <<0, 0>>, <<100, 1>>, <<0, 0, 0, 0>> }
SmallCoeffSet == { <<0, 0>>, <<100, 1>> }

\* MPC::Solve is entered: src lines 210-284
Call(p, is, cf) ==
    /\ frame[p].pc = "idle"
    /\ frame' = StoreFrame(frame, p, BuildProblem(is, cf))
    /\ UNCHANGED <<solver_N, lay_i, epc, et, cost, reads, fgw, st0, cur, dead>>

\* the solver returns and Solve runs to its return statement: src lines 286-305
SolverReturn(p, status, x) ==
    /\ frame[p].pc = "solving" /\ epc = "idle"
    /\ SolverMayReturn(frame[p], status, x)
    /\ frame' = StoreFrame(frame, p, SolveTail(frame[p], status, x))
    /\ UNCHANGED <<solver_N, lay_i, epc, et, cost, reads, fgw, st0, cur, dead>>

\* the caller has the tuple; the locals of the invocation are gone
Return(p) ==
    /\ frame[p].pc = "returned"
    /\ frame' = StoreFrame(frame, p, IdleFrame)
    /\ UNCHANGED <<solver_N, lay_i, epc, et, cost, reads, fgw, st0, cur, dead>>

---------------------------------------------------------------------------
(* polyeval_AD and FG_eval::operator(), src lines 51-148 *)

\* CppAD::cos, CppAD::sin (argument in mrad, value in 1/1000)
Cos(a) ==
    CASE a = 0 -> 1000
      [] a = 644 -> 800
      [] a = -644 -> 800
      [] a = 1571 -> 0
Sin(a) ==
    CASE a = 0 -> 0
      [] a = 644 -> 600
      [] a = -644 -> -600
      [] a = 1571 -> 1000
\* CppAD::atan of a slope (value in mrad)
ATan(c) ==
    CASE c = 0 -> 0
      [] c = 1 -> 785
      [] c = -1 -> -785

RECURSIVE Pow(_, _)
Pow(x, i) == IF i = 0 THEN 1 ELSE x * Pow(x, i - 1)

\* src lines 51-58: sum of coeffs[i] * x^i, i = 0 .. size-1
RECURSIVE PolySum(_, _, _)
PolySum(coeffs, x, i) ==
    IF i >= Len(coeffs) THEN 0
    ELSE coeffs[i + 1] * Pow(x, i) + PolySum(coeffs, x, i + 1)
polyeval_AD(coeffs, x) == PolySum(coeffs, x, 0)

\* a multiplier that grows with t
CteWeightDistal(t) == 50 * (t + 1)

\* src line 82: the multiplier of the squared normalized cte at step t
CteWeight(t) == 50 * (solver_N - t)

Term(kind, weight, t, scale) ==
    [kind |-> kind, weight |-> weight, t |-> t, scale |-> scale]

\* src lines 82-84
CostStateTerms(t) ==
    {Term("cte", CteWeight(t), t, std_cte), Term("epsi", 2, t, std_epsi),
     Term("v", 50, t, speed_limit)}
CostStateReads(t) == {Access("cte", t), Access("epsi", t), Access("v", t)}

\* src lines 87-88
CostActTerms(t) == {Term("delta", 5, t, max_delta), Term("a", 1, t, max_acc)}
CostActReads(t) == {Access("delta", t), Access("a", t)}

\* the rate terms reading the actuators of steps t + 2 and t + 1
CostRateReadsAhead(t) ==
    {Access("delta", t + 2), Access("delta", t + 1), Access("a", t + 2), Access("a", t + 1)}

\* src lines 99-100
CostRateTerms(t) ==
    {Term("ddelta", 50, t, std_ddelta_dt), Term("da", 1, t, std_dacc_dt)}
\* src lines 99-100: the accesses
CostRateReads(t) ==
    {Access("delta", t + 1), Access("delta", t), Access("a", t + 1), Access("a", t)}

FgWrite(out, kind, seg, t) == [out |-> out, kind |-> kind, seg |-> seg, t |-> t]

\* src lines 109-114: fg[1 + s_start] = vars[s_start]
FgPinWrites == {FgWrite(1 + Start(s), "raw", s, 0) : s \in Range(StateSegs)}
PinReads == {Access(s, 0) : s \in Range(StateSegs)}

\* src lines 140-145: fg[1 + s_start + t] = s1 - (prediction from step t - 1)
FgDynWrites(t) == {FgWrite(1 + Start(s) + t, "diff", s, t) : s \in Range(StateSegs)}
\* src lines 118-133
DynReads(t) ==
    {Access(s, t) : s \in Range(StateSegs)}
      \cup {Access(s, t - 1) : s \in {"x", "y", "psi", "v", "epsi"}}
      \cup {Access("delta", t - 1), Access("a", t - 1)}

\* src line 138
helper_psi_term(v0, delta0) ==
    (v0 * delta0 * 100) \div (1000 * Lf_centi * solver_dt_inv)

\* the x residual with sin in place of cos
ResXSin(x1, x0, v0, psi0) ==
    x1 - (x0 + (v0 * Sin(psi0)) \div (1000 * solver_dt_inv))

\* src line 140
ResX(x1, x0, v0, psi0) ==
    x1 - (x0 + (v0 * Cos(psi0)) \div (1000 * solver_dt_inv))
\* src line 141
ResY(y1, y0, v0, psi0) ==
    y1 - (y0 + (v0 * Sin(psi0)) \div (1000 * solver_dt_inv))
\* src line 142
ResPsi(psi1, psi0, v0, delta0) == psi1 - (psi0 + helper_psi_term(v0, delta0))
\* src line 143
ResV(v1, v0, a0) == v1 - (v0 + a0 \div solver_dt_inv)
\* src lines 135 and 144
ResCte(cte1, coeffs, x0, y0, v0, epsi0) ==
    cte1 - ((polyeval_AD(coeffs, x0) - y0)
              + (v0 * Sin(epsi0)) \div (1000 * solver_dt_inv))
\* src lines 136 and 145
ResEpsi(epsi1, coeffs, psi0, v0, delta0) ==
    epsi1 - ((psi0 - ATan(coeffs[2])) + helper_psi_term(v0, delta0))

\* the six residuals of step t: p is step t - 1, n is step t
Residuals(coeffs, p, n, delta0, a0) ==
    << ResX(n.x, p.x, p.v, p.psi),
       ResY(n.y, p.y, p.v, p.psi),
       ResPsi(n.psi, p.psi, p.v, delta0),
       ResV(n.v, p.v, a0),
       ResCte(n.cte, coeffs, p.x, p.y, p.v, p.epsi),
       ResEpsi(n.epsi, coeffs, p.psi, p.v, delta0) >>

(* The values the evaluator finds in vars.  An entry is drawn when the     *)
(* constraint part reads it first; the cost loops are recorded by their    *)
(* terms and accesses.  The entries of step t are drawn from sets that     *)
(* hold the positions of a vehicle that has moved for t or t - 1 steps at  *)
(* heading 0 or 644 mrad, and positions, speeds, errors and actuators that *)
(* no zero residual allows.                                                *)
\* src lines 63-66 and 261: FG_eval::coeffs refers to the coeffs of Solve
FG_coeffs == frame[1].coeffs
X0Dom == {0, 100}
PsiDom == {0, 644}
VDom == {1000, 1100}
EpsiDom == {0, 644}
DeltaDom == {0, 267}
ADom == {0, 1000}
XDom ==
    IF epc # "dyn" THEN {}
    ELSE {st0.x + d * k : d \in {80, 100}, k \in {et - 1, et}}
YDom ==
    IF epc # "dyn" THEN {}
    ELSE {0} \cup {st0.y + 60 * k : k \in {et - 1, et}}
CteDom ==
    IF epc # "dyn" THEN {}
    ELSE {FG_coeffs[1] + 60 * k : k \in {2 - et, 0, 1}}

UNCHANGED_solve == UNCHANGED <<solver_N, frame, lay_i>>

\* the solver, called by invocation 1, calls fg_eval(fg, vars): src lines 72-75
EvalBegin ==
    /\ epc = "idle" /\ frame[1].pc = "solving"
    /\ epc' = "cost_state" /\ et' = 0
    /\ cost' = {} /\ reads' = {}
    /\ fgw' = {FgWrite(0, "cost", "cost", 0)}
    /\ st0' = <<>> /\ cur' = <<>> /\ dead' = FALSE
    /\ UNCHANGED_solve

\* one iteration of the loop of src lines 81-85
CostState ==
    /\ epc = "cost_state" /\ et < solver_N
    /\ cost' = cost \cup CostStateTerms(et)
    /\ reads' = reads \cup CostStateReads(et)
    /\ et' = et + 1
    /\ UNCHANGED <<epc, fgw, st0, cur, dead>> /\ UNCHANGED_solve

CostStateEnd ==
    /\ epc = "cost_state" /\ ~(et < solver_N)
    /\ epc' = "cost_act" /\ et' = 0
    /\ UNCHANGED <<cost, reads, fgw, st0, cur, dead>> /\ UNCHANGED_solve

\* one iteration of the loop of src lines 86-97
CostAct ==
    /\ epc = "cost_act" /\ et < solver_N - 1
    /\ cost' = cost \cup CostActTerms(et)
    /\ reads' = reads \cup CostActReads(et)
    /\ et' = et + 1
    /\ UNCHANGED <<epc, fgw, st0, cur, dead>> /\ UNCHANGED_solve

CostActEnd ==
    /\ epc = "cost_act" /\ ~(et < solver_N - 1)
    /\ epc' = "cost_rate" /\ et' = 0
    /\ UNCHANGED <<cost, reads, fgw, st0, cur, dead>> /\ UNCHANGED_solve

\* one iteration of the loop of src lines 98-101
CostRate ==
    /\ epc = "cost_rate" /\ et < solver_N - 2
    /\ cost' = cost \cup CostRateTerms(et)
    /\ reads' = reads \cup CostRateReads(et)
    /\ et' = et + 1
    /\ UNCHANGED <<epc, fgw, st0, cur, dead>> /\ UNCHANGED_solve

CostRateEnd ==
    /\ epc = "cost_rate" /\ ~(et < solver_N - 2)
    /\ epc' = "pin" /\ et' = 0
    /\ UNCHANGED <<cost, reads, fgw, st0, cur, dead>> /\ UNCHANGED_solve

\* src lines 109-114
Pin(x0, y0, psi0, v0, epsi0) ==
    /\ epc = "pin"
    /\ fgw' = fgw \cup FgPinWrites
    /\ reads' = reads \cup PinReads
    /\ st0' = [x |-> x0, y |-> y0, psi |-> psi0, v |-> v0]
    /\ cur' = [x |-> x0, y |-> y0, psi |-> psi0, v |-> v0, epsi |-> epsi0]
    /\ dead' = TRUE
    /\ epc' = "dyn" /\ et' = 1
    /\ UNCHANGED cost /\ UNCHANGED_solve

\* one iteration of the loop of src lines 117-146
DynStep(n, delta0, a0) ==
    /\ epc = "dyn" /\ et < solver_N
    /\ fgw' = fgw \cup FgDynWrites(et)
    /\ reads' = reads \cup DynReads(et)
    /\ dead' = (/\ dead
                /\ Residuals(FG_coeffs, cur, n, delta0, a0) = <<0, 0, 0, 0, 0, 0>>
                /\ delta0 = 0 /\ a0 = 0)
    /\ cur' = [x |-> n.x, y |-> n.y, psi |-> n.psi, v |-> n.v, epsi |-> n.epsi]
    /\ et' = et + 1
    /\ UNCHANGED <<epc, cost, st0>> /\ UNCHANGED_solve

DynEnd ==
    /\ epc = "dyn" /\ ~(et < solver_N)
    /\ epc' = "done"
    /\ UNCHANGED <<et, cost, reads, fgw, st0, cur, dead>> /\ UNCHANGED_solve

\* operator() returns; fg stays with the solver
EvalReturn ==
    /\ epc = "done"
    /\ epc' = "idle" /\ et' = 0
    /\ st0' = <<>> /\ cur' = <<>> /\ dead' = FALSE
    /\ UNCHANGED <<cost, reads, fgw>> /\ UNCHANGED_solve

\* the layout scan visits the next index of the decision vector
LayoutScan ==
    /\ lay_i < n_vars - 1
    /\ lay_i' = lay_i + 1
    /\ UNCHANGED <<solver_N, frame, epc, et, cost, reads, fgw, st0, cur, dead>>

---------------------------------------------------------------------------
(* Specifications *)

EvalIdle ==
    /\ epc = "idle" /\ et = 0 /\ cost = {} /\ reads = {}
    /\ fgw = {} /\ st0 = <<>> /\ cur = <<>> /\ dead = FALSE

Init ==
    /\ solver_N \in 2..MaxN
    /\ frame = [p \in Procs |-> IdleFrame]
    /\ lay_i = 0
    /\ EvalIdle

\* one control cycle after the other
Next ==
    \/ \E is \in InitStates, cf \in CoeffSet : Call(1, is, cf)
    \/ \E st \in Statuses, x \in Candidates(frame[1]) : SolverReturn(1, st, x)
    \/ Return(1)

Spec == Init /\ [][Next]_vars

\* two control cycles in flight in the host
NextConc ==
    \/ \E p \in Procs, is \in SmallInitStates, cf \in SmallCoeffSet : Call(p, is, cf)
    \/ \E p \in Procs, st \in Statuses :
          \E x \in SmallCandidates(frame[p]) : SolverReturn(p, st, x)
    \/ \E p \in Procs : Return(p)

SpecConc == Init /\ [][NextConc]_vars

\* one control cycle with the evaluations of FG_eval the solver makes
NextEval ==
    \/ \E is \in EvalInitStates, cf \in SmallCoeffSet : Call(1, is, cf)
    \/ \E st \in Statuses : \E x \in SmallCandidates(frame[1]) : SolverReturn(1, st, x)
    \/ Return(1)
    \/ EvalBegin
    \/ CostState \/ CostStateEnd
    \/ CostAct \/ CostActEnd
    \/ CostRate \/ CostRateEnd
    \/ \E x0 \in X0Dom, psi0 \in PsiDom, v0 \in VDom, epsi0 \in EpsiDom :
          Pin(x0, 0, psi0, v0, epsi0)
    \/ \E x1 \in XDom, y1 \in YDom, psi1 \in PsiDom, v1 \in VDom,
          cte1 \in CteDom, epsi1 \in EpsiDom, delta0 \in DeltaDom, a0 \in ADom :
          DynStep([x |-> x1, y |-> y1, psi |-> psi1, v |-> v1,
                   cte |-> cte1, epsi |-> epsi1], delta0, a0)
    \/ DynEnd
    \/ EvalReturn

SpecEval == Init /\ [][NextEval]_vars

\* the layout for every horizon length up to MaxLayoutN
InitLayout ==
    /\ solver_N \in 2..MaxLayoutN
    /\ frame = [p \in Procs |-> IdleFrame]
    /\ lay_i = 0
    /\ EvalIdle

SpecLayout == InitLayout /\ [][LayoutScan]_vars

---------------------------------------------------------------------------
(* Properties *)

InFlight(p) == frame[p].pc # "idle"

\* C1: whatever status the solver returns, Solve has called the solver
\* once, has warned exactly on a non-success status, and returns the entries
\* delta_start, a_start and the x and y segments of the solver's candidate.
C1_OneCallResultFromCandidate ==
    \A p \in Procs : frame[p].pc = "returned" =>
        /\ frame[p].solver_calls = 1
        /\ frame[p].status \in Statuses
        /\ frame[p].warned = (frame[p].status # "success")
        /\ frame[p].next_delta = frame[p].x[6 * solver_N]
        /\ frame[p].next_a = frame[p].x[7 * solver_N - 1]
        /\ DOMAIN frame[p].solved_x = 0..(solver_N - 1)
        /\ DOMAIN frame[p].solved_y = 0..(solver_N - 1)
        /\ \A i \in 0..(solver_N - 1) :
              /\ frame[p].solved_x[i] = frame[p].x[i]
              /\ frame[p].solved_y[i] = frame[p].x[solver_N + i]

C1_Witness ==
    /\ solver_N = 3
    /\ frame[1].pc = "returned"
    /\ frame[1].status = "unknown"
    /\ frame[1].next_delta = max_delta + 1
    /\ frame[1].solved_x[1] = 7

\* C2: the steering command Solve returns lies in [-max_delta, max_delta]
\* and the acceleration in [-max_acc, max_acc], whatever the solver returned.
C2_CommandWithinActuatorLimits ==
    \A p \in Procs : frame[p].pc = "returned" =>
        /\ -max_delta <= frame[p].next_delta /\ frame[p].next_delta <= max_delta
        /\ -max_acc <= frame[p].next_a /\ frame[p].next_a <= max_acc

\* C3: the decision vector has 6N + 2(N-1) entries; the eight segments
\* follow one another without gap from index 0 to n_vars - 1, and every
\* index belongs to exactly one of them.
C3_SegmentsPartitionVector ==
    /\ n_vars = 6 * solver_N + 2 * (solver_N - 1)
    /\ Start(AllSegs[1]) = 0
    /\ \A k \in 1..(Len(AllSegs) - 1) :
          Start(AllSegs[k + 1]) = Start(AllSegs[k]) + SegLen(AllSegs[k])
    /\ Start(AllSegs[Len(AllSegs)]) + SegLen(AllSegs[Len(AllSegs)]) = n_vars
    /\ lay_i \in 0..(n_vars - 1)
    /\ Cardinality(SegsOf(lay_i)) = 1

C3_Witness == solver_N = 12 /\ lay_i = 93 /\ SegsOf(lay_i) = {8}

\* the constraint indices whose residual FG_eval writes as a raw variable,
\* and those it writes as a dynamics difference
RawResidualWrites == FgPinWrites
DiffResidualWrites == UNION {FgDynWrites(t) : t \in 1..(solver_N - 1)}
SegIndex(s) == CHOOSE k \in DOMAIN StateSegs : StateSegs[k] = s

\* C4: each of the 6N constraints has equal lower and upper bound; at the
\* six indices whose residual is a raw step-0 variable the bound is the
\* matching component of init_state, at the 6(N-1) indices whose residual
\* is a dynamics difference it is 0.
C4_ConstraintBounds ==
    \A p \in Procs : InFlight(p) =>
        /\ DOMAIN frame[p].constraints_lowerbound = 0..(6 * solver_N - 1)
        /\ DOMAIN frame[p].constraints_upperbound = 0..(6 * solver_N - 1)
        /\ \A i \in 0..(6 * solver_N - 1) :
              frame[p].constraints_lowerbound[i] = frame[p].constraints_upperbound[i]
        /\ Cardinality(RawResidualWrites) = 6
        /\ Cardinality(DiffResidualWrites) = 6 * (solver_N - 1)
        /\ \A w \in RawResidualWrites :
              frame[p].constraints_lowerbound[w.out - 1]
                 = frame[p].init_state[SegIndex(w.seg)]
        /\ \A w \in DiffResidualWrites :
              frame[p].constraints_lowerbound[w.out - 1] = 0

C4_Witness ==
    /\ solver_N = 3
    /\ frame[1].pc = "solving"
    /\ frame[1].init_state = <<100, 200, 644, 20000, 300, -785>>
    /\ frame[1].constraints_upperbound[psi_start] = 644

\* C5: once the bounds are built, every index of the decision vector has
\* bounds: +-speed_limit on the v segment, +-max_delta on the delta segment,
\* +-max_acc on the a segment, -+NO_LIMIT elsewhere; the indices assigned
\* by two loops are those of the v segment.
C5_VariableBounds ==
    \A p \in Procs : InFlight(p) =>
        /\ DOMAIN frame[p].vars_lowerbound = 0..(n_vars - 1)
        /\ DOMAIN frame[p].vars_upperbound = 0..(n_vars - 1)
        /\ \A i \in 0..(n_vars - 1) :
              /\ frame[p].vars_lowerbound[i] # UNSET
              /\ frame[p].vars_upperbound[i] # UNSET
              /\ frame[p].vars_lowerbound[i] = -frame[p].vars_upperbound[i]
              /\ frame[p].vars_upperbound[i] =
                    (CASE i \in SegRange("v") -> speed_limit
                       [] i \in SegRange("delta") -> max_delta
                       [] i \in SegRange("a") -> max_acc
                       [] OTHER -> NO_LIMIT)
              /\ frame[p].bound_writes[i] = (IF i \in SegRange("v") THEN 2 ELSE 1)

C5_Witness ==
    /\ solver_N = 3
    /\ frame[1].pc = "solving"
    /\ frame[1].vars_upperbound[cte_start - 1] = speed_limit
    /\ frame[1].vars_upperbound[cte_start] = NO_LIMIT
    /\ frame[1].vars_lowerbound[n_vars - 1] = -max_acc

CteTerms == {c \in cost : c.kind = "cte"}

\* C6 (as claimed): the cte weight does not decrease with the step.
C6_CteWeightGrowsWithStep ==
    \A c1 \in CteTerms, c2 \in CteTerms : c1.t < c2.t => c2.weight >= c1.weight

\* C6 (amended): the cte weight at step t is 50 * (N - t); it decreases
\* with the step, so cte near the current step is penalized most.
C6_CteWeightShrinksWithStep ==
    /\ \A c \in CteTerms : c.weight = 50 * (solver_N - c.t) /\ c.weight > 0
    /\ \A c1 \in CteTerms, c2 \in CteTerms : c1.t < c2.t => c2.weight < c1.weight

C6_Witness ==
    /\ solver_N = 3
    /\ epc = "done"
    /\ {c.t : c \in CteTerms} = 0..2

\* what an invocation hands to the solver and what it returns, written out
\* from its own init_state and its own solver return
OwnInputsOnly ==
    \A p \in Procs : InFlight(p) =>
        /\ \A i \in 0..(n_vars - 1) :
              frame[p].vars[i] =
                 (IF i < 6 * solver_N /\ i % solver_N = 0
                  THEN frame[p].init_state[(i \div solver_N) + 1] ELSE 0)
        /\ \A i \in 0..(6 * solver_N - 1) :
              /\ frame[p].constraints_lowerbound[i] = frame[p].vars[i]
              /\ frame[p].constraints_upperbound[i] = frame[p].vars[i]
        /\ \A q \in Procs : InFlight(q) =>
              /\ frame[q].vars_lowerbound = frame[p].vars_lowerbound
              /\ frame[q].vars_upperbound = frame[p].vars_upperbound
        /\ frame[p].pc = "returned" =>
              /\ frame[p].next_delta = frame[p].x[6 * solver_N]
              /\ frame[p].next_a = frame[p].x[7 * solver_N - 1]

\* a step changes the locals of at most one invocation
OneFrameChanges ==
    \A p \in Procs, q \in Procs :
        p # q => (frame'[p] = frame[p] \/ frame'[q] = frame[q])

\* C7: with two invocations in flight, what each hands to the solver and
\* what it returns comes from its own init_state, coeffs and solver return,
\* and no step of one invocation changes the locals of the other.
C7_InvocationsIndependent == [](OwnInputsOnly) /\ [][OneFrameChanges]_vars

C7_Witness ==
    /\ frame[1].pc = "returned"
    /\ frame[2].pc = "solving"
    /\ frame[1].init_state # frame[2].init_state
    /\ frame[1].coeffs # frame[2].coeffs
    /\ frame[1].next_delta = max_delta + 1

\* C8: while every dynamics residual read so far is 0 and every actuator
\* read so far is 0, the state of step k = et - 1 is the state of step 0
\* moved k steps along its heading at its speed.
C8_DeadReckoning ==
    (epc \in {"dyn", "done"} /\ dead) =>
        /\ cur.x = st0.x + (st0.v * Cos(st0.psi) * (et - 1)) \div (1000 * solver_dt_inv)
        /\ cur.y = st0.y + (st0.v * Sin(st0.psi) * (et - 1)) \div (1000 * solver_dt_inv)
        /\ cur.psi = st0.psi
        /\ cur.v = st0.v

C8_Witness ==
    /\ solver_N = 3
    /\ epc = "done" /\ dead
    /\ st0 = [x |-> 100, y |-> 0, psi |-> 644, v |-> 1000]
    /\ cur.x = 260 /\ cur.y = 120

InSegment(r) ==
    /\ r.off \in 0..((IF r.seg \in {"delta", "a"} THEN solver_N - 1 ELSE solver_N) - 1)
    /\ \A k \in DOMAIN AllSegs : (k \in SegsOf(r.idx)) <=> (AllSegs[k] = r.seg)

\* C9: every access vars[start + offset] of the evaluator and every access
\* solution.x[start + offset] of the extraction lies in the segment of the
\* start it uses; the evaluator assigns fg[0] for the cost and each of
\* fg[1 .. 6N] once, fg[1 + i] being the residual of constraint index i.
C9_AccessesStayInSegment ==
    /\ \A r \in reads : InSegment(r)
    /\ \A p \in Procs : \A r \in frame[p].x_reads : InSegment(r)
    /\ \A w \in fgw :
          /\ w.out \in 0..(6 * solver_N)
          /\ (w.kind = "cost") <=> (w.out = 0)
          /\ w.out > 0 =>
                /\ w.seg \in Range(StateSegs) /\ w.t \in 0..(solver_N - 1)
                /\ w.out - 1 = Start(w.seg) + w.t
                /\ (w.kind = "raw") <=> (w.t = 0)
    /\ \A w1 \in fgw, w2 \in fgw : w1.out = w2.out => w1 = w2
    /\ epc = "done" => {w.out : w \in fgw} = 0..(6 * solver_N)

C9_Witness ==
    /\ solver_N = 3
    /\ frame[1].pc = "returned" /\ epc = "idle"
    /\ Cardinality(fgw) = 19
    /\ Access("delta", 1) \in reads /\ Access("epsi", 2) \in reads
    /\ Access("y", 2) \in frame[1].x_reads

\* C10: every value pinned on a step-0 variable, which is also its initial
\* guess, lies within the bounds of that variable.
C10_PinnedValueWithinBounds ==
    \A p \in Procs : InFlight(p) =>
        \A k \in DOMAIN PinTargets :
            /\ frame[p].vars[PinTargets[k]] = frame[p].init_state[k]
            /\ frame[p].constraints_lowerbound[PinTargets[k]] = frame[p].init_state[k]
            /\ frame[p].vars_lowerbound[PinTargets[k]] <= frame[p].init_state[k]
            /\ frame[p].init_state[k] <= frame[p].vars_upperbound[PinTargets[k]]

=============================================================================
